---- MODULE Spec2Model ----
(***************************************************************************)
(* Model of rust_profiler: the MemoryTracker accounting (memory_tracker.rs),*)
(* the ProcessMonitor sample (process_monitor.rs), the two sampling loops   *)
(* and the leak summary (main.rs).                                          *)
(*                                                                          *)
(* usize values are written in their two's-complement reading: an integer   *)
(* n >= 0 stands for the usize n, and n < 0 stands for 2^64 + n (so -1 is   *)
(* usize::MAX).  Addition and subtraction of the encodings are then the     *)
(* wrapping operations of the machine, and the unsigned order is UGt.       *)
(***************************************************************************)
EXTENDS Integers, Sequences, FiniteSets

VARIABLES
    current_stats,    \* MemoryTracker.current_stats : MemoryStats
    peak_usage,       \* MemoryTracker.peak_usage
    overflow_checks,  \* build profile: TRUE = arithmetic overflow panics, FALSE = wraps
    panicked,         \* an arithmetic overflow panic has unwound the caller
    ret,              \* value returned by the last operation (None when it returned nothing or panicked)
    last_op,          \* the last operation or event handled, with its arguments
    seen_usage,       \* current_usage of every snapshot passed to update_stats so far
    pc,               \* position in profile_existing_process / profile_new_process / generate_report
    report,           \* the ProfileReport built by generate_report, None before
    mode,             \* "attach" (--pid), "spawn" (command), "none" when only the tracker is driven
    proc,             \* the target process: "unspawned", "alive", "zombie" (exited, not reaped), "gone"
    cancel,           \* a ctrl-c has arrived and the pending ctrl_c() future is ready
    now,              \* the clock
    start_instant,    \* start_time / start_instant
    timer_next,       \* deadline of the next tick of interval_timer
    interval,         \* --interval
    max_duration,     \* --duration
    killed,           \* child.kill() has been called (its result is discarded)
    stop_reason,      \* why the loop was left, None while it runs
    end_time,         \* end_time, None before it is read
    error,            \* the error the run returned, None if none
    samples,          \* number of get_memory_stats calls made
    last_sampled,     \* the tracker's snapshot right after the last successful tick
    last_tick         \* clock reading at which the last tick was handled, None before the first

tracker_vars == <<current_stats, peak_usage, overflow_checks, panicked, ret, last_op, seen_usage>>
session_vars == <<pc, report, mode, proc, cancel, now, start_instant, timer_next, interval,
                  max_duration, killed, stop_reason, end_time, error, samples, last_sampled,
                   last_tick>>
vars == <<current_stats, peak_usage, overflow_checks, panicked, ret, last_op, seen_usage,
          pc, report, mode, proc, cancel, now, start_instant, timer_next, interval,
          max_duration, killed, stop_reason, end_time, error, samples, last_sampled,
                   last_tick>>

\* ---- bounds of the model ----
MaxAddr == 1
MaxSize == 2
MaxUsage == 1
MaxCount == 1
MaxOps == 2
MaxLedgerOps == 4
MaxLedgerAddr == 2
MaxProducers == 2
MaxSeenUsage == 2
MaxLeakAddr == 3
MaxLeakSize == 2
MaxLeakUsage == 4
MaxTime == 3
MaxInterval == 2
MaxDuration == 2
MaxPages == 1
MaxKb == 1

\* ---- program constants ----
PageSize == 4096
KbBytes == 1024

Addrs == 1..MaxAddr
Sizes == 1..MaxSize

\* ---- Option<T> ----
None == <<>>
Some(v) == <<v>>

\* ---- usize arithmetic ----
UGt(a, b) == IF (a < 0) = (b < 0) THEN a > b ELSE a < 0
AddOverflows(a, b) ==
    IF a < 0 /\ b < 0 THEN TRUE
    ELSE IF a >= 0 /\ b >= 0 THEN FALSE
    ELSE a + b >= 0
SubOverflows(a, b) == UGt(b, a)
\* a * b on usize passes 2^64 (the magnitudes the model works with are below 2^31
\* or within 2^31 of 2^64)
MulOverflows(a, b) ==
    IF a = 0 \/ b = 0 THEN FALSE
    ELSE IF a < 0 /\ b < 0 THEN TRUE
    ELSE IF a < 0 THEN b >= 2
    ELSE IF b < 0 THEN a >= 2
    ELSE FALSE

Max(a, b) == IF a >= b THEN a ELSE b
RECURSIVE SetMax(_)
SetMax(S) == IF S = {} THEN 0
             ELSE LET x == CHOOSE y \in S : TRUE IN Max(x, SetMax(S \ {x}))

\* ---- AllocationInfo, MemoryStats ----
AllocationInfo(size) == [size |-> size]
Ledgers == UNION {[D -> {AllocationInfo(s) : s \in Sizes}] : D \in SUBSET Addrs}

RECURSIVE SumSizes(_)
SumSizes(ledger) ==
    IF DOMAIN ledger = {} THEN 0
    ELSE LET a == CHOOSE x \in DOMAIN ledger : TRUE
         IN ledger[a].size + SumSizes([x \in DOMAIN ledger \ {a} |-> ledger[x]])

EmptyLedger == [a \in {} |-> AllocationInfo(0)]

EmptyStats ==
    [total_allocated |-> 0, total_freed |-> 0, current_usage |-> 0, peak_usage |-> 0,
     allocation_count |-> 0, free_count |-> 0, active_allocations |-> EmptyLedger]

\* the snapshots handed to update_stats: current_usage up to maxUsage, a
\* peak_usage field of 0 or maxUsage, any ledger (independent of current_usage), and totals and counts
\* that tell of k earlier frees
StatsUpTo(maxUsage) ==
    {[total_allocated |-> cu + k, total_freed |-> k,
      current_usage |-> cu, peak_usage |-> pk,
      allocation_count |-> Cardinality(DOMAIN l) + k, free_count |-> k,
      active_allocations |-> l] :
        cu \in 0..maxUsage, pk \in {0, maxUsage}, k \in 0..MaxCount, l \in Ledgers}
StatsInputs == StatsUpTo(MaxUsage)

\* ---- MemoryTracker ----
new ==
    /\ current_stats = EmptyStats
    /\ peak_usage = 0

\* update_stats that takes the new sample as the peak without comparing
update_stats_NoMax(new_stats) ==
    /\ peak_usage' = new_stats.current_usage
    /\ current_stats' = [new_stats EXCEPT !.peak_usage = new_stats.current_usage]

\* an update that keeps the peak_usage carried by the new snapshot
update_stats_KeepsInputPeak(new_stats) ==
    LET peak == IF UGt(new_stats.current_usage, peak_usage)
                THEN new_stats.current_usage ELSE peak_usage
    IN /\ peak_usage' = peak
       /\ current_stats' = new_stats

update_stats(new_stats) ==
    LET peak == IF UGt(new_stats.current_usage, peak_usage)
                THEN new_stats.current_usage ELSE peak_usage
    IN /\ peak_usage' = peak
       /\ current_stats' = [new_stats EXCEPT !.peak_usage = peak]

add_allocation(address, info) ==
    LET s0 == current_stats
        s1 == [s0 EXCEPT !.total_allocated = @ + info.size]
        s2 == [s1 EXCEPT !.current_usage = @ + info.size]
        s3 == [s2 EXCEPT !.allocation_count = @ + 1]
        s4 == [s3 EXCEPT !.active_allocations =
                  [a \in DOMAIN @ \cup {address} |-> IF a = address THEN info ELSE @[a]]]
    IN IF overflow_checks /\ AddOverflows(s0.total_allocated, info.size)
       THEN panicked' = TRUE /\ current_stats' = s0 /\ UNCHANGED peak_usage
       ELSE IF overflow_checks /\ AddOverflows(s1.current_usage, info.size)
       THEN panicked' = TRUE /\ current_stats' = s1 /\ UNCHANGED peak_usage
       ELSE IF overflow_checks /\ AddOverflows(s2.allocation_count, 1)
       THEN panicked' = TRUE /\ current_stats' = s2 /\ UNCHANGED peak_usage
       ELSE /\ UNCHANGED panicked
            /\ IF UGt(s4.current_usage, peak_usage)
               THEN /\ peak_usage' = s4.current_usage
                    /\ current_stats' = [s4 EXCEPT !.peak_usage = s4.current_usage]
               ELSE /\ UNCHANGED peak_usage
                    /\ current_stats' = s4

\* remove_allocation that counts a free even when the address is absent
remove_allocation_CountsAbsent(address) ==
    IF address \in DOMAIN current_stats.active_allocations
    THEN LET info == current_stats.active_allocations[address]
         IN /\ current_stats' = [current_stats EXCEPT
                   !.active_allocations = [a \in DOMAIN @ \ {address} |-> @[a]],
                   !.total_freed = @ + info.size,
                   !.current_usage = @ - info.size,
                   !.free_count = @ + 1]
            /\ ret' = Some(info)
            /\ UNCHANGED panicked
    ELSE /\ ret' = None
         /\ current_stats' = [current_stats EXCEPT !.free_count = @ + 1]
         /\ UNCHANGED panicked

\* remove_allocation that forgets to give the bytes back to current_usage
remove_allocation_KeepsUsage(address) ==
    IF address \in DOMAIN current_stats.active_allocations
    THEN LET info == current_stats.active_allocations[address]
         IN /\ current_stats' = [current_stats EXCEPT
                   !.active_allocations = [a \in DOMAIN @ \ {address} |-> @[a]],
                   !.total_freed = @ + info.size,
                   !.free_count = @ + 1]
            /\ ret' = Some(info)
            /\ UNCHANGED panicked
    ELSE /\ ret' = None
         /\ UNCHANGED <<current_stats, panicked>>

remove_allocation(address) ==
    IF address \in DOMAIN current_stats.active_allocations
    THEN LET info == current_stats.active_allocations[address]
             s1 == [current_stats EXCEPT !.active_allocations =
                       [a \in DOMAIN @ \ {address} |-> @[a]]]
             s2 == [s1 EXCEPT !.total_freed = @ + info.size]
             s3 == [s2 EXCEPT !.current_usage = @ - info.size]
             s4 == [s3 EXCEPT !.free_count = @ + 1]
         IN IF overflow_checks /\ AddOverflows(s1.total_freed, info.size)
            THEN panicked' = TRUE /\ current_stats' = s1 /\ ret' = None
            ELSE IF overflow_checks /\ SubOverflows(s2.current_usage, info.size)
            THEN panicked' = TRUE /\ current_stats' = s2 /\ ret' = None
            ELSE IF overflow_checks /\ AddOverflows(s3.free_count, 1)
            THEN panicked' = TRUE /\ current_stats' = s3 /\ ret' = None
            ELSE /\ UNCHANGED panicked
                 /\ current_stats' = s4
                 /\ ret' = Some(info)
    ELSE /\ ret' = None
         /\ UNCHANGED <<current_stats, panicked>>

clear ==
    /\ current_stats' = EmptyStats
    /\ peak_usage' = 0

\* the session variables when no profiling session is run
NoSession ==
    /\ mode = "none"
    /\ proc = "unspawned"
    /\ cancel = FALSE
    /\ now = 0
    /\ start_instant = 0
    /\ timer_next = 0
    /\ interval = 1
    /\ max_duration = 0
    /\ killed = FALSE
    /\ stop_reason = None
    /\ end_time = None
    /\ error = None
    /\ samples = 0
    /\ last_sampled = EmptyStats
    /\ last_tick = None

\* ---- the tracker driven through its public operations ----
InitTracker ==
    /\ new
    /\ overflow_checks \in BOOLEAN
    /\ panicked = FALSE
    /\ ret = None
    /\ last_op = [op |-> "new", present |-> FALSE]
    /\ seen_usage = {}
    /\ pc = "api"
    /\ report = None
    /\ NoSession

CallUpdateStats ==
    \E new_stats \in StatsInputs :
        /\ ~panicked
        /\ update_stats(new_stats)
        /\ last_op' = [op |-> "update_stats", present |-> FALSE, arg |-> new_stats]
        /\ ret' = None
        /\ UNCHANGED <<overflow_checks, panicked, seen_usage, session_vars>>

CallAddAllocation ==
    \E address \in Addrs, size \in Sizes :
        /\ ~panicked
        /\ current_stats.allocation_count < MaxOps
        /\ add_allocation(address, AllocationInfo(size))
        /\ last_op' = [op |-> "add_allocation",
                       present |-> address \in DOMAIN current_stats.active_allocations]
        /\ ret' = None
        /\ UNCHANGED <<overflow_checks, seen_usage, session_vars>>

RemoveFrom(addresses) ==
    \E address \in addresses :
        /\ ~panicked
        /\ remove_allocation(address)
        /\ last_op' = [op |-> "remove_allocation",
                       present |-> address \in DOMAIN current_stats.active_allocations]
        /\ UNCHANGED <<overflow_checks, peak_usage, seen_usage, session_vars>>

CallRemoveAllocation == RemoveFrom(Addrs)

CallClear ==
    /\ ~panicked
    /\ clear
    /\ last_op' = [op |-> "clear", present |-> FALSE]
    /\ ret' = None
    /\ UNCHANGED <<overflow_checks, panicked, seen_usage, session_vars>>

NextTracker == CallUpdateStats \/ CallAddAllocation \/ CallRemoveAllocation \/ CallClear

SpecTracker == InitTracker /\ [][NextTracker]_vars

\* ---- update_stats alone, on a fresh tracker ----
UpdateOnly ==
    \E new_stats \in StatsUpTo(MaxSeenUsage) :
        /\ update_stats(new_stats)
        /\ last_op' = [op |-> "update_stats", present |-> FALSE]
        /\ seen_usage' = seen_usage \cup {new_stats.current_usage}
        /\ UNCHANGED <<overflow_checks, panicked, ret, session_vars>>

NextUpdate == UpdateOnly

SpecUpdate == InitTracker /\ [][NextUpdate]_vars

\* ---- add_allocation / remove_allocation alone, no address added while present ----
LedgerAdd ==
    \E address \in 1..MaxLedgerAddr, size \in Sizes :
        /\ ~panicked
        /\ address \notin DOMAIN current_stats.active_allocations
        /\ current_stats.allocation_count < MaxLedgerOps
        /\ add_allocation(address, AllocationInfo(size))
        /\ last_op' = [op |-> "add_allocation", present |-> FALSE]
        /\ ret' = None
        /\ UNCHANGED <<overflow_checks, seen_usage, session_vars>>

LedgerRemove == RemoveFrom(1..MaxLedgerAddr)

NextLedger == LedgerAdd \/ LedgerRemove

SpecLedger == InitTracker /\ [][NextLedger]_vars

\* ---- add_allocation / remove_allocation called by several producers ----
\* both methods take `&mut self`: whatever hands the tracker to the producers
\* (a lock, a channel) gives one caller at a time exclusive access, so the calls
\* of the producers interleave as whole calls, in any order, on any address
Producers == 1..MaxProducers

ProducerAdd ==
    \E by \in Producers, address \in 1..MaxLedgerAddr, size \in Sizes :
        /\ ~panicked
        /\ current_stats.allocation_count < MaxLedgerOps
        /\ add_allocation(address, AllocationInfo(size))
        /\ last_op' = [op |-> "add_allocation",
                       present |-> address \in DOMAIN current_stats.active_allocations,
                       by |-> by]
        /\ ret' = None
        /\ UNCHANGED <<overflow_checks, seen_usage, session_vars>>

ProducerRemove ==
    \E by \in Producers, address \in 1..MaxLedgerAddr :
        /\ ~panicked
        /\ remove_allocation(address)
        /\ last_op' = [op |-> "remove_allocation",
                       present |-> address \in DOMAIN current_stats.active_allocations,
                       by |-> by]
        /\ UNCHANGED <<overflow_checks, peak_usage, seen_usage, session_vars>>

NextProducers == ProducerAdd \/ ProducerRemove

SpecProducers == InitTracker /\ [][NextProducers]_vars

\* ---- calculate_leak_summary ----
\* the orders in which a HashMap with key set S may be iterated
Perms(S) == {f \in [1..Cardinality(S) -> S] : \A i, j \in DOMAIN f : i # j => f[i] # f[j]}

\* stats.active_allocations.values().map(|alloc| alloc.size), iterated in `order`
SizesInOrder(ledger, order) == [i \in DOMAIN order |-> ledger[order[i]].size]

\* a fold that keeps the smaller element
RECURSIVE IterMax_KeepsMin(_, _)
IterMax_KeepsMin(seq, acc) ==
    IF seq = <<>> THEN acc
    ELSE IterMax_KeepsMin(Tail(seq), IF acc = None THEN Some(Head(seq))
                                     ELSE IF UGt(Head(seq), acc[1]) THEN acc
                                     ELSE Some(Head(seq)))

\* Iterator::max
RECURSIVE IterMax(_, _)
IterMax(seq, acc) ==
    IF seq = <<>> THEN acc
    ELSE IterMax(Tail(seq), IF acc = None THEN Some(Head(seq))
                            ELSE IF UGt(acc[1], Head(seq)) THEN acc
                            ELSE Some(Head(seq)))

\* a grouping that inserts 1 for a new size and never increments
RECURSIVE GroupSizes_NoIncrement(_, _)
GroupSizes_NoIncrement(seq, size_groups) ==
    IF seq = <<>> THEN size_groups
    ELSE GroupSizes_NoIncrement(Tail(seq),
                                [k \in DOMAIN size_groups \cup {Head(seq)} |-> 1])

\* for alloc in values() { *size_groups.entry(alloc.size).or_insert(0) += 1 }
RECURSIVE GroupSizes(_, _)
GroupSizes(seq, size_groups) ==
    IF seq = <<>> THEN size_groups
    ELSE LET size == Head(seq)
             old == IF size \in DOMAIN size_groups THEN size_groups[size] ELSE 0
         IN GroupSizes(Tail(seq),
                       [k \in DOMAIN size_groups \cup {size} |->
                           IF k = size THEN old + 1 ELSE size_groups[k]])

\* the comparator the other way round: a.0.cmp(&b.0)
RECURSIVE InsertBySizeDesc_Ascending(_, _)
InsertBySizeDesc_Ascending(x, sorted) ==
    IF sorted = <<>> THEN <<x>>
    ELSE IF UGt(Head(sorted)[1], x[1]) THEN <<x>> \o sorted
    ELSE <<Head(sorted)>> \o InsertBySizeDesc_Ascending(x, Tail(sorted))

\* one step of the stable sort: x goes behind every pair that does not sort after it
\* under the comparator |a, b| b.0.cmp(&a.0)
RECURSIVE InsertBySizeDesc(_, _)
InsertBySizeDesc(x, sorted) ==
    IF sorted = <<>> THEN <<x>>
    ELSE IF UGt(x[1], Head(sorted)[1]) THEN <<x>> \o sorted
    ELSE <<Head(sorted)>> \o InsertBySizeDesc(x, Tail(sorted))

\* the collected pairs left in the iteration order of size_groups
SortBySizeDesc_NoSort(seq) == seq

RECURSIVE SortBySizeDesc(_)
SortBySizeDesc(seq) ==
    IF seq = <<>> THEN <<>>
    ELSE InsertBySizeDesc(seq[Len(seq)], SortBySizeDesc(SubSeq(seq, 1, Len(seq) - 1)))

DistinctSizes(ledger) == {ledger[a].size : a \in DOMAIN ledger}

\* order: iteration order of active_allocations; group_order: that of size_groups
calculate_leak_summary(stats, order, group_order) ==
    LET sizes == SizesInOrder(stats.active_allocations, order)
        size_groups == GroupSizes(sizes, [k \in {} |-> 0])
        collected == [i \in DOMAIN group_order |->
                         <<group_order[i], size_groups[group_order[i]]>>]
    IN [total_leaked_bytes |-> stats.current_usage,
        leak_count |-> Cardinality(DOMAIN stats.active_allocations),
        largest_leak |-> IterMax(sizes, None),
        leaks_by_size |-> SortBySizeDesc(collected)]

\* print_leak_analysis: nothing is computed for a summary without leaks; otherwise
\* `size * count` is computed for every pair of leaks_by_size
print_leak_analysis_overflows(leak_summary) ==
    /\ leak_summary.leak_count # 0
    /\ \E i \in DOMAIN leak_summary.leaks_by_size :
          MulOverflows(leak_summary.leaks_by_size[i][1], leak_summary.leaks_by_size[i][2])

\* a report whose leak summary is computed from a freshly constructed snapshot
generate_report_SummaryOfEmpty(start, end, memory_stats, write_ok) ==
    \E order \in Perms(DOMAIN memory_stats.active_allocations),
       group_order \in Perms(DistinctSizes(memory_stats.active_allocations)) :
        /\ report' = Some([start_time |-> start,
                           end_time |-> end,
                           duration |-> IF end >= start THEN end - start ELSE 0,
                           memory_stats |-> memory_stats,
                           leak_summary |-> calculate_leak_summary(EmptyStats, <<>>, <<>>)])
        /\ pc' = IF write_ok THEN "done" ELSE "failed"
        /\ error' = IF write_ok THEN None ELSE Some("OutputWriteFailure")
        /\ UNCHANGED panicked

\* generate_report builds the ProfileReport, writes the file (write_ok: the
\* serialisation and the write succeed) and then prints the summary, which
\* panics on an overflow of `size * count` when overflow checks are on
generate_report(start, end, memory_stats, write_ok) ==
    \E order \in Perms(DOMAIN memory_stats.active_allocations),
       group_order \in Perms(DistinctSizes(memory_stats.active_allocations)) :
        LET leak_summary == calculate_leak_summary(memory_stats, order, group_order)
        IN /\ report' = Some([start_time |-> start,
                              end_time |-> end,
                              duration |-> IF end >= start THEN end - start ELSE 0,
                              memory_stats |-> memory_stats,
                              leak_summary |-> leak_summary])
           /\ IF ~write_ok
              THEN /\ pc' = "failed"
                   /\ error' = Some("OutputWriteFailure")
                   /\ UNCHANGED panicked
              ELSE IF overflow_checks /\ print_leak_analysis_overflows(leak_summary)
              THEN /\ pc' = "panicked"
                   /\ error' = None
                   /\ panicked' = TRUE
              ELSE /\ pc' = "done"
                   /\ error' = None
                   /\ UNCHANGED panicked

\* ---- the leak summary of any snapshot ----
LeakLedgers ==
    UNION {[D -> {AllocationInfo(s) : s \in 1..MaxLeakSize}] : D \in SUBSET (1..MaxLeakAddr)}

LeakSnapshots ==
    {[EmptyStats EXCEPT !.current_usage = u, !.active_allocations = l] :
        u \in 0..MaxLeakUsage, l \in LeakLedgers}

InitLeak ==
    /\ current_stats \in LeakSnapshots
    /\ peak_usage = current_stats.peak_usage
    /\ overflow_checks \in BOOLEAN
    /\ panicked = FALSE
    /\ ret = None
    /\ last_op = [op |-> "new", present |-> FALSE]
    /\ seen_usage = {}
    /\ pc = "generate_report"
    /\ report = None
    /\ mode = "none"
    /\ proc = "gone"
    /\ cancel = FALSE
    /\ now = 0
    /\ start_instant = 0
    /\ timer_next = 0
    /\ interval = 1
    /\ max_duration = 0
    /\ killed = FALSE
    /\ stop_reason = None
    /\ end_time = Some(0)
    /\ error = None
    /\ samples = 0
    /\ last_sampled = current_stats
    /\ last_tick = None

\* a report built from a freshly constructed snapshot instead of the tracker's
GenerateReport_FreshStats ==
    /\ pc = "generate_report"
    /\ \E write_ok \in BOOLEAN :
          generate_report(start_instant, end_time[1], EmptyStats, write_ok)
    /\ last_op' = [op |-> "generate_report"]
    /\ UNCHANGED <<current_stats, peak_usage, overflow_checks, ret, seen_usage,
                   mode, proc, cancel, now, start_instant, timer_next, interval, max_duration,
                   killed, stop_reason, end_time, samples, last_sampled,
                   last_tick>>

\* generate_report(pid, command, start_time, end_time, tracker.get_final_stats(), output_file)
GenerateReport ==
    /\ pc = "generate_report"
    /\ \E write_ok \in BOOLEAN :
          generate_report(start_instant, end_time[1], current_stats, write_ok)
    /\ last_op' = [op |-> "generate_report"]
    /\ UNCHANGED <<current_stats, peak_usage, overflow_checks, ret, seen_usage,
                   mode, proc, cancel, now, start_instant, timer_next, interval, max_duration,
                   killed, stop_reason, end_time, samples, last_sampled,
                   last_tick>>

NextLeak == GenerateReport

SpecLeak == InitLeak /\ [][NextLeak]_vars

\* ---- ProcessMonitor ----
\* what /proc can show of the process: (statm.resident, status.vmrss, status.vmpeak);
\* an exited process that is not yet reaped has no memory and no Vm* lines
ProcReadings(p) ==
    IF p = "zombie" THEN {<<0, None, None>>}
    ELSE {<<r, rss, pk>> : r \in 0..MaxPages,
                          rss \in {None} \cup {Some(k) : k \in 0..MaxKb},
                          pk \in {None} \cup {Some(k) : k \in 0..MaxKb}}

\* whether a read below /proc/<pid> may succeed, may fail
ReadOutcomes(p) == IF p \in {"alive", "zombie"} THEN {TRUE, FALSE} ELSE {FALSE}

SaturatingSub(a, b) == IF UGt(b, a) THEN 0 ELSE a - b

get_memory_stats(resident, status_vmrss, status_vmpeak) ==
    LET current_usage == resident * PageSize
        vmrss == IF status_vmrss = None THEN current_usage ELSE status_vmrss[1] * KbBytes
        vmpeak == IF status_vmpeak = None THEN current_usage ELSE status_vmpeak[1] * KbBytes
    IN [total_allocated |-> vmpeak,
        total_freed |-> SaturatingSub(vmpeak, vmrss),
        current_usage |-> vmrss,
        peak_usage |-> vmpeak,
        allocation_count |-> 0,
        free_count |-> 0,
        active_allocations |-> EmptyLedger]

\* ---- scheduler states of the sampling loop ----
Running == pc \in {"select", "is_running"}
Stopping == pc \in {"kill_wait", "finalize", "generate_report"}
Stopped == pc = "done"

\* ---- profile_existing_process / profile_new_process ----
InitSession ==
    /\ new
    /\ overflow_checks \in BOOLEAN
    /\ panicked = FALSE
    /\ ret = None
    /\ last_op = [op |-> "main"]
    /\ seen_usage = {}
    /\ pc = "start"
    /\ report = None
    /\ mode \in {"attach", "spawn"}
    /\ proc \in IF mode = "attach" THEN {"alive", "gone"} ELSE {"unspawned"}
    /\ cancel = FALSE
    /\ now = 0
    /\ start_instant = 0
    /\ timer_next = 0
    /\ interval \in 1..MaxInterval
    /\ max_duration \in 0..MaxDuration
    /\ killed = FALSE
    /\ stop_reason = None
    /\ end_time = None
    /\ error = None
    /\ samples = 0
    /\ last_sampled = EmptyStats
    /\ last_tick = None

tracker_state == <<current_stats, peak_usage, overflow_checks, panicked, ret, seen_usage>>
config == <<mode, interval, max_duration>>

\* a session start that goes on to the sampling loop although the PID could not be inspected
AttachStart_IgnoresFailure ==
    /\ pc = "start" /\ mode = "attach"
    /\ pc' = "select"
    /\ start_instant' = now
    /\ timer_next' = now
    /\ last_op' = [op |-> "attach"]
    /\ UNCHANGED <<tracker_state, config, report, proc, cancel, now, killed, stop_reason,
                   end_time, error, samples, last_sampled, last_tick>>

\* main.rs 145-153: ProcessMonitor::new(pid)?, MemoryTracker::new(), the clock readings, the timer
AttachStart ==
    /\ pc = "start" /\ mode = "attach"
    /\ \E attach_ok \in ReadOutcomes(proc) :
          IF attach_ok
          THEN /\ pc' = "select"
               /\ start_instant' = now
               /\ timer_next' = now
               /\ UNCHANGED error
          ELSE /\ pc' = "failed"
               /\ error' = Some("AttachFailure")
               /\ UNCHANGED <<start_instant, timer_next>>
    /\ last_op' = [op |-> "attach"]
    /\ UNCHANGED <<tracker_state, config, report, proc, cancel, now, killed, stop_reason,
                   end_time, samples, last_sampled,
                   last_tick>>

\* main.rs 209-221: spawn()?, child.id()?, ProcessMonitor::new(pid)?, ...
SpawnStart ==
    /\ pc = "start" /\ mode = "spawn"
    /\ \E spawn_ok \in BOOLEAN, attach_ok \in BOOLEAN :
          IF ~spawn_ok
          THEN /\ pc' = "failed"
               /\ error' = Some("SpawnFailure")
               /\ UNCHANGED <<proc, start_instant, timer_next>>
          ELSE IF ~attach_ok
          THEN /\ pc' = "failed"
               /\ error' = Some("AttachFailure")
               /\ proc' = "alive"
               /\ UNCHANGED <<start_instant, timer_next>>
          ELSE /\ pc' = "select"
               /\ proc' = "alive"
               /\ start_instant' = now
               /\ timer_next' = now
               /\ UNCHANGED error
    /\ last_op' = [op |-> "spawn"]
    /\ UNCHANGED <<tracker_state, config, report, cancel, now, killed, stop_reason,
                   end_time, samples, last_sampled,
                   last_tick>>

\* a sample whose failure resets the tracker instead of being skipped
sample_ResetsOnFailure(read_ok, reading) ==
    IF read_ok
    THEN /\ update_stats(get_memory_stats(reading[1], reading[2], reading[3]))
         /\ last_sampled' = current_stats'
    ELSE /\ clear
         /\ UNCHANGED last_sampled

\* if let Ok(stats) = monitor.get_memory_stats().await { tracker.update_stats(stats); }
sample(read_ok, reading) ==
    IF read_ok
    THEN /\ update_stats(get_memory_stats(reading[1], reading[2], reading[3]))
         /\ last_sampled' = current_stats'
    ELSE UNCHANGED <<current_stats, peak_usage, last_sampled>>

\* `let _ = child.kill().await` (main.rs 236, 254): start_kill(), whose failure
\* is discarded and leaves the child as it is, then wait() for the child's exit
child_kill ==
    /\ killed' = TRUE
    /\ UNCHANGED proc
    /\ \E kill_ok \in BOOLEAN : pc' = IF kill_ok THEN "kill_wait" ELSE "finalize"

\* the wait() inside child.kill().await returns: the signalled child has exited
\* and is reaped; the branch then breaks
KillWait ==
    /\ pc = "kill_wait"
    /\ proc' = "gone"
    /\ pc' = "finalize"
    /\ last_op' = [op |-> "kill_wait"]
    /\ UNCHANGED <<tracker_state, config, report, cancel, now, start_instant, timer_next,
                   killed, stop_reason, end_time, error, samples, last_sampled,
                   last_tick>>

\* a tick branch that checks the timeout only after a successful sample
TimerTick_TimeoutAfterSuccessOnly ==
    /\ pc = "select"
    /\ now >= timer_next
    /\ timer_next' = timer_next + interval
    /\ samples' = samples + 1
    /\ last_tick' = Some(now)
    /\ cancel' = FALSE
    /\ \E read_ok \in ReadOutcomes(proc), reading \in ProcReadings(proc) :
          /\ sample(read_ok, reading)
          /\ last_op' = [op |-> "tick", read_ok |-> read_ok]
          /\ IF read_ok /\ now - start_instant >= max_duration
             THEN /\ stop_reason' = Some("TimeoutExceeded")
                  /\ IF mode = "spawn"
                     THEN child_kill
                     ELSE pc' = "finalize" /\ UNCHANGED <<killed, proc>>
             ELSE /\ pc' = IF mode = "attach" THEN "is_running" ELSE "select"
                  /\ UNCHANGED <<stop_reason, killed, proc>>
    /\ UNCHANGED <<overflow_checks, panicked, ret, seen_usage, config, report, now,
                   start_instant, end_time, error>>

\* the `interval_timer.tick()` branch of select! (main.rs 157-170, 225-239).
\* The ctrl_c() future of this iteration is dropped with the branch not taken.
TimerTick ==
    /\ pc = "select"
    /\ now >= timer_next
    /\ timer_next' = timer_next + interval
    /\ samples' = samples + 1
    /\ last_tick' = Some(now)
    /\ cancel' = FALSE
    /\ \E read_ok \in ReadOutcomes(proc), reading \in ProcReadings(proc) :
          /\ sample(read_ok, reading)
          /\ last_op' = [op |-> "tick", read_ok |-> read_ok]
    /\ IF now - start_instant >= max_duration
       THEN /\ stop_reason' = Some("TimeoutExceeded")
            /\ IF mode = "spawn"
               THEN child_kill
               ELSE pc' = "finalize" /\ UNCHANGED <<killed, proc>>
       ELSE /\ pc' = IF mode = "attach" THEN "is_running" ELSE "select"
            /\ UNCHANGED <<stop_reason, killed, proc>>
    /\ UNCHANGED <<overflow_checks, panicked, ret, seen_usage, config, report, now,
                   start_instant, end_time, error>>

\* a ctrl_c branch that takes one more sample before it breaks
CtrlC_FinalSample ==
    /\ pc = "select"
    /\ cancel
    /\ stop_reason' = Some("UserCancelled")
    /\ IF mode = "spawn"
       THEN child_kill
       ELSE pc' = "finalize" /\ UNCHANGED <<killed, proc>>
    /\ last_op' = [op |-> "ctrl_c", tick_ready |-> now >= timer_next]
    /\ samples' = samples + 1
    /\ \E reading \in ProcReadings(proc) : sample(proc # "gone", reading)
    /\ UNCHANGED <<overflow_checks, panicked, ret, seen_usage, config, report, cancel, now,
                   start_instant, timer_next, end_time, error, last_tick>>

\* the `tokio::signal::ctrl_c()` branch of select! (main.rs 171-174, 252-256)
CtrlC ==
    /\ pc = "select"
    /\ cancel
    /\ stop_reason' = Some("UserCancelled")
    /\ IF mode = "spawn"
       THEN child_kill
       ELSE pc' = "finalize" /\ UNCHANGED <<killed, proc>>
    /\ last_op' = [op |-> "ctrl_c", tick_ready |-> now >= timer_next]
    /\ UNCHANGED <<tracker_state, config, report, cancel, now, start_instant, timer_next,
                   end_time, error, samples, last_sampled,
                   last_tick>>

\* the `child.wait()` branch of select! (main.rs 240-251)
ChildWait ==
    /\ pc = "select" /\ mode = "spawn"
    /\ proc = "zombie"
    /\ proc' = "gone"
    /\ pc' = "finalize"
    /\ stop_reason' = Some("ProcessEnded")
    /\ last_op' = [op |-> "child_exit", tick_ready |-> now >= timer_next]
    /\ UNCHANGED <<tracker_state, config, report, cancel, now, start_instant, timer_next,
                   killed, end_time, error, samples, last_sampled,
                   last_tick>>

\* main.rs 177-181: if !monitor.is_running()? { break; }   (process_monitor.rs 53-58)
IsRunningCheck ==
    /\ pc = "is_running"
    /\ \E stat_ok \in ReadOutcomes(proc) :
          IF stat_ok
          THEN /\ pc' = "select"
               /\ UNCHANGED stop_reason
               /\ last_op' = [op |-> "is_running", tick_ready |-> FALSE]
          ELSE /\ pc' = "finalize"
               /\ stop_reason' = Some("ProcessEnded")
               /\ last_op' = [op |-> "not_running", tick_ready |-> now >= timer_next]
    /\ UNCHANGED <<tracker_state, config, report, proc, cancel, now, start_instant,
                   timer_next, killed, end_time, error, samples, last_sampled,
                   last_tick>>

\* main.rs 184-185 and 260-261: end_time, command
Finalize ==
    /\ pc = "finalize"
    /\ end_time' = Some(now)
    /\ IF mode = "attach"
       THEN \E cmdline_ok \in ReadOutcomes(proc) :
               IF cmdline_ok
               THEN pc' = "generate_report" /\ UNCHANGED error
               ELSE pc' = "failed" /\ error' = Some("ReadError")
       ELSE pc' = "generate_report" /\ UNCHANGED error
    /\ last_op' = [op |-> "finalize"]
    /\ UNCHANGED <<tracker_state, config, report, proc, cancel, now, start_instant,
                   timer_next, killed, stop_reason, samples, last_sampled,
                   last_tick>>

\* ---- the environment of a session ----
\* time passes while select! waits, while `child.kill().await` waits for the
\* killed child to exit, and between the loop and the reading of end_time
ClockAdvance ==
    /\ pc \in {"select", "is_running", "kill_wait", "finalize"}
    /\ now < MaxTime
    /\ now' = now + 1
    /\ UNCHANGED <<tracker_state, last_op, config, pc, report, proc, cancel, start_instant,
                   timer_next, killed, stop_reason, end_time, error, samples, last_sampled,
                   last_tick>>

\* the target exits; the parent of an attached process may reap it
ProcessExit ==
    /\ pc \in {"select", "is_running", "finalize"}
    /\ \/ proc = "alive" /\ proc' = "zombie"
       \/ proc = "alive" /\ mode = "attach" /\ proc' = "gone"
       \/ proc = "zombie" /\ mode = "attach" /\ proc' = "gone"
    /\ UNCHANGED <<tracker_state, last_op, config, pc, report, cancel, now, start_instant,
                   timer_next, killed, stop_reason, end_time, error, samples, last_sampled,
                   last_tick>>

\* SIGINT while the select! waits on a ctrl_c() future
Interrupt ==
    /\ pc = "select"
    /\ ~cancel
    /\ cancel' = TRUE
    /\ UNCHANGED <<tracker_state, last_op, config, pc, report, proc, now, start_instant,
                   timer_next, killed, stop_reason, end_time, error, samples, last_sampled,
                   last_tick>>

NextSession ==
    \/ AttachStart
    \/ SpawnStart
    \/ TimerTick
    \/ CtrlC
    \/ KillWait
    \/ ChildWait
    \/ IsRunningCheck
    \/ Finalize
    \/ GenerateReport
    \/ ClockAdvance
    \/ ProcessExit
    \/ Interrupt

SpecSession == InitSession /\ [][NextSession]_vars

\* ---- claims ----

\* C1: under update_stats alone the tracked peak is the largest current_usage
\* passed so far, and it never decreases from one call to the next.
C1_PeakIsMaxSeen ==
    /\ [](peak_usage = SetMax(seen_usage))
    /\ [][~UGt(peak_usage, peak_usage')]_vars

C1_Witness ==
    /\ Cardinality(seen_usage) = 3
    /\ current_stats.current_usage = 1
    /\ peak_usage = 2

\* C2: with add_allocation / remove_allocation alone and no address added while
\* present, current_usage is the sum of the active sizes and the ledger holds
\* allocation_count - free_count entries.
C2_LedgerAccounting ==
    /\ current_stats.current_usage = SumSizes(current_stats.active_allocations)
    /\ Cardinality(DOMAIN current_stats.active_allocations)
          = current_stats.allocation_count - current_stats.free_count

C2_Witness ==
    /\ current_stats.free_count >= 1
    /\ Cardinality(DOMAIN current_stats.active_allocations) = 1
    /\ current_stats.current_usage >= 1
    /\ current_stats.total_freed >= 1
    /\ last_op.op = "remove_allocation" /\ last_op.present

\* C3: remove_allocation of an absent address returns nothing and changes no
\* field of the snapshot nor the tracked peak.
C3_FailedRemoveNoEffect ==
    [][(last_op'.op = "remove_allocation" /\ ~last_op'.present)
        => /\ ret' = None
           /\ current_stats' = current_stats
           /\ peak_usage' = peak_usage
           /\ panicked' = panicked]_vars

C3_Witness ==
    /\ last_op.op = "remove_allocation" /\ ~last_op.present
    /\ ret = None
    /\ current_stats.free_count = 1
    /\ current_stats.total_freed = 2
    /\ current_stats.allocation_count = 1

\* C4: remove_allocation of a present address leaves current_usage at
\* max(0, current_usage - size): no underflow panic, no wrapped value.
C4_RemoveClampsAtZero ==
    [][(last_op'.op = "remove_allocation" /\ last_op'.present)
        => /\ ~panicked'
           /\ \E a \in DOMAIN current_stats.active_allocations
                       \ DOMAIN current_stats'.active_allocations :
                 current_stats'.current_usage =
                    Max(0, current_stats.current_usage - current_stats.active_allocations[a].size)
       ]_vars

Summary == report[1].leak_summary
Snapshot == report[1].memory_stats

RECURSIVE SumCounts(_)
SumCounts(pairs) == IF pairs = <<>> THEN 0 ELSE Head(pairs)[2] + SumCounts(Tail(pairs))
RECURSIVE SumSizeTimesCount(_)
SumSizeTimesCount(pairs) ==
    IF pairs = <<>> THEN 0 ELSE Head(pairs)[1] * Head(pairs)[2] + SumSizeTimesCount(Tail(pairs))

\* C6: leak_count is the number of ledger entries, and the counts of
\* leaks_by_size add up to it.
C6_LeakCount ==
    report # None =>
        /\ Summary.leak_count = Cardinality(DOMAIN Snapshot.active_allocations)
        /\ SumCounts(Summary.leaks_by_size) = Summary.leak_count

C6_Witness ==
    /\ report # None
    /\ Summary.leak_count = 3
    /\ Len(Summary.leaks_by_size) = 2

\* C7: leaks_by_size has exactly one pair per distinct ledger size, with the
\* number of entries of that size, in strictly descending order of size.
C7_GroupsBySizeDescending ==
    report # None =>
        LET pairs == Summary.leaks_by_size
            ledger == Snapshot.active_allocations
        IN /\ {pairs[i][1] : i \in DOMAIN pairs} = DistinctSizes(ledger)
           /\ Len(pairs) = Cardinality(DistinctSizes(ledger))
           /\ \A i \in DOMAIN pairs :
                 pairs[i][2] = Cardinality({a \in DOMAIN ledger : ledger[a].size = pairs[i][1]})
           /\ \A i \in DOMAIN pairs : i > 1 => pairs[i - 1][1] > pairs[i][1]

C7_Witness ==
    /\ report # None
    /\ Cardinality(DOMAIN Snapshot.active_allocations) = 3
    /\ Summary.leaks_by_size = <<(<<2, 1>>), (<<1, 2>>)>>

\* C8: largest_leak is None exactly for an empty ledger; otherwise it is the
\* largest size in the ledger, which is the size of the first pair of leaks_by_size.
C8_LargestLeak ==
    report # None =>
        LET ledger == Snapshot.active_allocations
        IN /\ (Summary.largest_leak = None) <=> (DOMAIN ledger = {})
           /\ DOMAIN ledger # {} =>
                 /\ Summary.largest_leak = Some(SetMax(DistinctSizes(ledger)))
                 /\ Summary.largest_leak = Some(Summary.leaks_by_size[1][1])

C8_Witness ==
    /\ report # None
    /\ Summary.largest_leak = Some(2)
    /\ Summary.leaks_by_size[1] = <<2, 1>>
    /\ Cardinality(DOMAIN Snapshot.active_allocations) = 3

\* C5: the sizes times counts of leaks_by_size add up to total_leaked_bytes in
\* the report of every session.
C5_LeakedBytesIsSum ==
    report # None => SumSizeTimesCount(Summary.leaks_by_size) = Summary.total_leaked_bytes

\* C9: a tick whose snapshot read fails leaves the tracker as it was, raises
\* no error, and leaves the loop only through the timeout check of that tick
\* or the not-running check that follows it.
C9_FailedTickSkipped ==
    /\ [][(samples' = samples + 1 /\ ~last_op'.read_ok)
            => /\ current_stats' = current_stats
               /\ peak_usage' = peak_usage
               /\ last_sampled' = last_sampled
               /\ error' = None /\ ~panicked' /\ pc' # "failed"
               /\ \/ pc' \in {"select", "is_running"}
                  \/ /\ pc' \in {"kill_wait", "finalize"}
                     /\ stop_reason' = Some("TimeoutExceeded")
                     /\ now - start_instant >= max_duration]_vars
    /\ [][(pc = "is_running" /\ pc' # "is_running")
            => \/ pc' = "select"
               \/ pc' = "finalize" /\ stop_reason' = Some("ProcessEnded")]_vars

C9_Witness ==
    /\ last_op.op = "tick" /\ ~last_op.read_ok
    /\ Running
    /\ samples >= 2
    /\ current_stats.current_usage > 0
    /\ proc = "alive"

\* C10: the step that observes a cancellation or the exit of the process goes
\* to Stopping, tick pending or not, without a sample; nothing is sampled and
\* the tracker is not touched once Running is left; the report carries the
\* snapshot of the last successful tick.
C10_StopOnObservation ==
    /\ [][(Running /\ last_op' # last_op
              /\ last_op'.op \in {"ctrl_c", "child_exit", "not_running"})
            => /\ pc' \in {"kill_wait", "finalize"}
               /\ samples' = samples
               /\ current_stats' = current_stats /\ peak_usage' = peak_usage]_vars
    /\ [][(Stopping \/ Stopped \/ pc = "failed")
            => /\ samples' = samples
               /\ current_stats' = current_stats /\ peak_usage' = peak_usage]_vars
    /\ [](report # None => Snapshot = last_sampled)

C10_Witness ==
    /\ last_op.op = "ctrl_c" /\ last_op.tick_ready
    /\ pc = "finalize"
    /\ stop_reason = Some("UserCancelled")
    /\ samples >= 1
    /\ current_stats.current_usage > 0
    /\ current_stats = last_sampled

\* C11: a run that has started sampling never ends in an error without having
\* built its report: whatever ends the loop, the ProfileReport is produced.
C11_SamplingEndsWithReport ==
    (pc = "failed" /\ error \notin {Some("AttachFailure"), Some("SpawnFailure")})
        => report # None

\* C12: in spawn mode a timeout stop has issued the kill, keeps the reason
\* TimeoutExceeded, and the end_time read afterwards is the clock reading of
\* the timeout tick.
C12_TimeoutEndTime ==
    /\ []((mode = "spawn" /\ stop_reason = Some("TimeoutExceeded")) => killed)
    /\ [][(mode = "spawn" /\ stop_reason = Some("TimeoutExceeded"))
            => stop_reason' = stop_reason]_vars
    /\ []((mode = "spawn" /\ stop_reason = Some("TimeoutExceeded") /\ end_time # None)
            => end_time = last_tick)

\* C13: the deadline is fixed when the session starts; every tick, its sample
\* read or not, compares the elapsed time with max_duration and stops with
\* TimeoutExceeded exactly when it is reached; no sample follows that tick.
C13_TimeoutEveryTick ==
    /\ [][pc # "start" => (start_instant' = start_instant /\ max_duration' = max_duration)]_vars
    /\ [][(samples' = samples + 1)
            => ((now - start_instant >= max_duration)
                 <=> (pc' \in {"kill_wait", "finalize"}
                        /\ stop_reason' = Some("TimeoutExceeded")))]_vars
    /\ [](stop_reason = Some("TimeoutExceeded") => now - start_instant >= max_duration)
    /\ [][stop_reason = Some("TimeoutExceeded") => samples' = samples]_vars

C13_Witness ==
    /\ last_op.op = "tick" /\ ~last_op.read_ok
    /\ stop_reason = Some("TimeoutExceeded")
    /\ pc = "finalize"
    /\ max_duration >= 1
    /\ samples >= 2
    /\ now - start_instant = max_duration

\* C14: two ticks are never handled less than one interval apart: a tick
\* missed during a delay is dropped, not fired later in a burst.
C14_NoCatchUpTicks ==
    [][(samples' = samples + 1 /\ last_tick # None)
        => now - last_tick[1] >= interval]_vars

\* C15: when the target PID cannot be inspected at session start the run fails
\* with an attach failure at once: an absent target never reaches the sampling
\* loop, and a run failed this way has taken no sample, left the tracker as
\* constructed, read no end time, built no report, and goes no further.
C15_AttachFailureBeforeSampling ==
    /\ [][(pc = "start" /\ mode = "attach" /\ proc = "gone")
            => (pc' = "failed" /\ error' = Some("AttachFailure"))]_vars
    /\ [](error = Some("AttachFailure")
            => /\ pc = "failed"
               /\ samples = 0
               /\ last_tick = None
               /\ current_stats = EmptyStats
               /\ peak_usage = 0
               /\ end_time = None
               /\ report = None)
    /\ [][error = Some("AttachFailure") => UNCHANGED vars]_vars

C15_Witness ==
    /\ mode = "attach"
    /\ proc = "gone"
    /\ last_op.op = "attach"
    /\ pc = "failed"
    /\ error = Some("AttachFailure")

\* C16: update_stats(new) replaces the snapshot: total_allocated, total_freed,
\* current_usage, allocation_count, free_count and active_allocations become
\* those of new, whatever the tracker held; peak_usage (tracked and in the
\* snapshot) becomes the larger of the previous tracked peak and
\* new.current_usage, whatever peak_usage new carries.
C16_UpdateReplacesSnapshot ==
    [][last_op'.op = "update_stats"
        => LET new_stats == last_op'.arg
               peak == IF UGt(new_stats.current_usage, peak_usage)
                       THEN new_stats.current_usage ELSE peak_usage
           IN /\ current_stats'.total_allocated = new_stats.total_allocated
              /\ current_stats'.total_freed = new_stats.total_freed
              /\ current_stats'.current_usage = new_stats.current_usage
              /\ current_stats'.allocation_count = new_stats.allocation_count
              /\ current_stats'.free_count = new_stats.free_count
              /\ current_stats'.active_allocations = new_stats.active_allocations
              /\ current_stats'.peak_usage = peak
              /\ peak_usage' = peak]_vars

\* an update_stats whose argument carries peak_usage 0 and no ledger, applied to
\* a tracker whose peak is above every current_usage an update can bring (so
\* it was built with add_allocation)
C16_Witness ==
    /\ last_op.op = "update_stats"
    /\ last_op.arg.peak_usage = 0
    /\ last_op.arg.current_usage = 1
    /\ last_op.arg.active_allocations = EmptyLedger
    /\ current_stats.active_allocations = EmptyLedger
    /\ current_stats.current_usage = 1
    /\ peak_usage > MaxUsage
    /\ current_stats.peak_usage = peak_usage

\* C17: in every state reached by update_stats, add_allocation,
\* remove_allocation and clear on a fresh tracker, the snapshot's peak_usage is
\* at least its current_usage and equals the tracker's own tracked peak.
C17_PeakAtLeastCurrent ==
    /\ ~UGt(current_stats.current_usage, current_stats.peak_usage)
    /\ current_stats.peak_usage = peak_usage

\* C18: the snapshot of every ProfileSession handed to report generation
\* satisfies current_usage = total_allocated - total_freed, whatever
\* combination of statm resident size, VmRSS and VmPeak was read.
C18_UsageIsAllocatedMinusFreed ==
    report # None
        => Snapshot.current_usage = Snapshot.total_allocated - Snapshot.total_freed

\* C19: once the loop has left Running the tracker is never changed and Running
\* is never entered again, whatever the stop reason; the snapshot of the final
\* ProfileSession is the tracker's snapshot, hence the one it held when the
\* loop was left; Stopped is terminal.
C19_FinalSnapshotIsTrackers ==
    /\ [][(Stopping \/ Stopped)
            => /\ current_stats' = current_stats
               /\ peak_usage' = peak_usage
               /\ stop_reason' = stop_reason
               /\ ~Running']_vars
    /\ [](report # None => Snapshot = current_stats)
    /\ [](Stopped => report # None)
    /\ [][Stopped => UNCHANGED vars]_vars

C19_Witness ==
    /\ Stopped
    /\ stop_reason = Some("TimeoutExceeded")
    /\ samples >= 2
    /\ report # None
    /\ Snapshot = current_stats
    /\ Snapshot.current_usage > 0
    /\ Snapshot.peak_usage > Snapshot.current_usage

\* C20: calculate_leak_summary is deterministic: the summary in the report is
\* the one obtained for every iteration order of the ledger and of the size
\* groups, from any snapshot with the same current_usage and the same ledger
\* entries, the order of leaks_by_size included.
C20_SummaryDeterministic ==
    report # None =>
        \A order \in Perms(DOMAIN Snapshot.active_allocations),
           group_order \in Perms(DistinctSizes(Snapshot.active_allocations)),
           other \in 0..1 :
            calculate_leak_summary([Snapshot EXCEPT !.total_allocated = other,
                                                    !.total_freed = other,
                                                    !.peak_usage = other,
                                                    !.allocation_count = other,
                                                    !.free_count = other],
                                   order, group_order) = Summary

C20_Witness ==
    /\ report # None
    /\ Cardinality(DOMAIN Snapshot.active_allocations) = 3
    /\ Cardinality(Perms(DistinctSizes(Snapshot.active_allocations))) = 2
    /\ Summary.leaks_by_size = <<(<<2, 2>>), (<<1, 1>>)>>
    /\ Summary.largest_leak = Some(2)

\* the accounting invariants of a snapshot: usage is the sum of the ledger's
\* sizes, allocated minus freed is the usage, and the ledger holds
\* allocation_count - free_count entries
AccountingHolds(stats) ==
    /\ stats.current_usage = SumSizes(stats.active_allocations)
    /\ stats.total_allocated - stats.total_freed = stats.current_usage
    /\ Cardinality(DOMAIN stats.active_allocations)
          = stats.allocation_count - stats.free_count

\* C21: add_allocation for an address already in the ledger keeps the
\* accounting invariants: if they hold before the call they hold after it.
C21_DuplicateAddKeepsAccounting ==
    [][(last_op'.op = "add_allocation" /\ last_op'.present
            /\ AccountingHolds(current_stats))
        => AccountingHolds(current_stats')]_vars

\* C22: a spawn-mode run that has ended, after its spawn succeeded and without
\* the child having ended on its own, has issued a terminate request to the
\* child: no run leaves its spawned child running.
C22_SpawnedChildTerminated ==
    (/\ mode = "spawn"
     /\ pc \in {"done", "failed"}
     /\ proc # "unspawned"
     /\ stop_reason # Some("ProcessEnded"))
        => (killed /\ proc # "alive")

\* C23: the leak_summary of a report is calculate_leak_summary of that report's
\* own memory_stats; the report is built in one step, after the sampling loop
\* has been left, from the tracker's final snapshot, and is never changed
\* afterwards.
C23_SummaryOfFinalSnapshot ==
    /\ [](report # None
            => \E order \in Perms(DOMAIN Snapshot.active_allocations),
                  group_order \in Perms(DistinctSizes(Snapshot.active_allocations)) :
                   Summary = calculate_leak_summary(Snapshot, order, group_order))
    /\ [][(report = None /\ report' # None)
            => /\ pc = "generate_report"
               /\ end_time # None
               /\ samples' = samples
               /\ report'[1].memory_stats = current_stats]_vars
    /\ [][report # None => report' = report]_vars

C23_Witness ==
    /\ report # None
    /\ pc = "done"
    /\ stop_reason = Some("UserCancelled")
    /\ samples >= 1
    /\ Snapshot.current_usage > 0
    /\ Summary.total_leaked_bytes = Snapshot.current_usage
    /\ Summary.leak_count = 0

\* C24: with add_allocation and remove_allocation called by concurrent
\* producers, each call taking effect as a whole, after every call of every
\* interleaving current_usage is the sum of the active sizes and peak_usage is
\* at least current_usage.
C24_InterleavedAccounting ==
    /\ current_stats.current_usage = SumSizes(current_stats.active_allocations)
    /\ ~UGt(current_stats.current_usage, current_stats.peak_usage)

====
